---- MODULE Spec2Model ----
(***************************************************************************)
(* Model of the Zoopla scraper:                                            *)
(*   src/src/extractors/utils_filters.py  (_build_id_key,                  *)
(*       deduplicate_listings, load_snapshot, save_snapshot,               *)
(*       compute_deltas)                                                   *)
(*   src/src/runner.py                    (run_scraper)                    *)
(*   src/src/extractors/zoopla_parser.py  (scrape_search, _safe_get, the   *)
(*       card phase, the detail phase and their extraction helpers)        *)
(*                                                                         *)
(* Python values are modelled as follows.                                  *)
(*   None            <<>>                                                  *)
(*   str             the string s is <<s>>                                 *)
(*   int             the record [int |-> n]                                *)
(*   listing dict    a record [uprn, url, title]; uprn and url are         *)
(*                   Optional[str], title is a str; under SpecScrape a     *)
(*                   record with every field of PropertyListing, whose     *)
(*                   texts are sequences of characters                     *)
(*   list            a sequence                                            *)
(*   dict (index)    a sequence of [key, value] entries in insertion order *)
(***************************************************************************)
EXTENDS Naturals, Sequences, FiniteSets, TLC

VARIABLES
    current,            \* argument `listings` / `current` of the filter functions
    previous,           \* argument `previous` of compute_deltas
    id_fields,          \* argument `id_fields`
    op,                 \* the function applied last ("input" before any call)
    keys,               \* _build_id_key of every member of current
    unique,             \* result of deduplicate_listings(current)
    twice,              \* result of deduplicate_listings(unique)
    prev_arg,           \* the `previous` compute_deltas was called with
    new_listings,       \* compute_deltas(...)[0]
    delisted_listings,  \* compute_deltas(...)[1]
    snapshot_file,      \* content of the snapshot file on disk
    run,                \* how the last run_scraper call ended
    previous_snapshot,  \* run_scraper's previous_snapshot
    unique_listings,    \* run_scraper's unique_listings (exported as all_listings)
    scraped_listings,   \* run_scraper's all_listings, before deduplication
    pc,                 \* where a scrape_search call stands ("idle": no call)
    page_cards,         \* the cards _find_listing_cards gets from the search page
    result_cap,         \* argument `max_results` of scrape_search
    card_index,         \* how many cards the for loop has taken
    result_listings,    \* scrape_search's `listings`
    fetched,            \* per member of listings, how its detail fetch went
    requests,           \* the requests sent so far: URL and time of issue
    now                 \* the clock, in tenths of a second

filterVars == <<current, previous, id_fields, op, keys, unique, twice, prev_arg>>

runVars == <<snapshot_file, run, previous_snapshot, unique_listings, scraped_listings>>

scrapeVars ==
    <<pc, page_cards, result_cap, card_index, result_listings, fetched, requests, now>>

vars == <<current, previous, id_fields, op, keys, unique, twice, prev_arg,
          new_listings, delisted_listings, snapshot_file, run, previous_snapshot,
          unique_listings, scraped_listings, pc, page_cards, result_cap, card_index,
          result_listings, fetched, requests, now>>

(***************************************************************************)
(* Bounds of the model.                                                    *)
(***************************************************************************)
\* Len(current) + Len(previous) of the inputs drawn for the filter functions
MaxTotal == 3

\* search URLs of one run
MaxUrls == 2

\* listing cards served to one run, over all its search pages
MaxCards == 2

(***************************************************************************)
(* Python values.                                                          *)
(***************************************************************************)
None == <<>>

Str(s) == <<s>>

\* `if value:` on an Optional[str]: None and "" are falsy
Truthy(v) == v # None /\ v # Str("")

\* PropertyListing as the dict asdict() produces, reduced to the identity
\* fields and one descriptive field
Uprns == {None, Str(""), Str("u1")}

Urls == {None, Str("https://www.zoopla.co.uk/a")}

Titles == {Str(""), Str("t1")}

Listings == [uprn : Uprns, url : Urls, title : Titles]

DefaultIdFields == <<"uprn", "url">>

IdFieldOrders == {DefaultIdFields, <<"url", "uprn">>}

RECURSIVE SeqsUpTo(_, _)
SeqsUpTo(S, n) ==
    IF n = 0 THEN {<<>>}
    ELSE LET shorter == SeqsUpTo(S, n - 1)
         IN  shorter \cup {Append(s, x) : s \in {t \in shorter : Len(t) = n - 1}, x \in S}

(***************************************************************************)
(* utils_filters._build_id_key                                             *)
(***************************************************************************)
RECURSIVE build_id_key_from(_, _, _)
build_id_key_from(listing, fields, i) ==
    IF i > Len(fields) THEN None
    ELSE LET field == fields[i]
             value == listing[field]
         IN  IF Truthy(value) THEN Str(field \o ":" \o value[1])
             ELSE build_id_key_from(listing, fields, i + 1)

\* mutant: `if value is not None` in place of `if value`
RECURSIVE build_id_key_not_none_from(_, _, _)
build_id_key_not_none_from(listing, fields, i) ==
    IF i > Len(fields) THEN None
    ELSE LET field == fields[i]
             value == listing[field]
         IN  IF value # None THEN Str(field \o ":" \o value[1])
             ELSE build_id_key_not_none_from(listing, fields, i + 1)

_build_id_key_not_none(listing, fields) == build_id_key_not_none_from(listing, fields, 1)

_build_id_key(listing, fields) == build_id_key_from(listing, fields, 1)

(***************************************************************************)
(* utils_filters.deduplicate_listings                                      *)
(***************************************************************************)
RECURSIVE dedup_loop(_, _, _, _, _)
dedup_loop(listings, fields, i, seen, acc) ==
    IF i > Len(listings) THEN acc
    ELSE LET listing == listings[i]
             key == _build_id_key(listing, fields)
         IN  IF key = None
             THEN dedup_loop(listings, fields, i + 1, seen, Append(acc, listing))
             ELSE IF key \in seen
             THEN dedup_loop(listings, fields, i + 1, seen, acc)
             ELSE dedup_loop(listings, fields, i + 1, seen \cup {key}, Append(acc, listing))

\* mutant: a listing without a key is dropped when an equal listing was kept
RECURSIVE dedup_loop_by_content(_, _, _, _, _)
dedup_loop_by_content(listings, fields, i, seen, acc) ==
    IF i > Len(listings) THEN acc
    ELSE LET listing == listings[i]
             key == _build_id_key(listing, fields)
         IN  IF key = None
             THEN IF \E j \in 1..Len(acc) : acc[j] = listing
                  THEN dedup_loop_by_content(listings, fields, i + 1, seen, acc)
                  ELSE dedup_loop_by_content(listings, fields, i + 1, seen, Append(acc, listing))
             ELSE IF key \in seen
             THEN dedup_loop_by_content(listings, fields, i + 1, seen, acc)
             ELSE dedup_loop_by_content(listings, fields, i + 1, seen \cup {key},
                                        Append(acc, listing))

deduplicate_listings_by_content(listings, fields) ==
    dedup_loop_by_content(listings, fields, 1, {}, <<>>)

\* mutant: unique.insert(0, listing) in place of unique.append(listing)
RECURSIVE dedup_loop_prepend(_, _, _, _, _)
dedup_loop_prepend(listings, fields, i, seen, acc) ==
    IF i > Len(listings) THEN acc
    ELSE LET listing == listings[i]
             key == _build_id_key(listing, fields)
         IN  IF key = None
             THEN dedup_loop_prepend(listings, fields, i + 1, seen, <<listing>> \o acc)
             ELSE IF key \in seen
             THEN dedup_loop_prepend(listings, fields, i + 1, seen, acc)
             ELSE dedup_loop_prepend(listings, fields, i + 1, seen \cup {key},
                                     <<listing>> \o acc)

deduplicate_listings_prepend(listings, fields) ==
    dedup_loop_prepend(listings, fields, 1, {}, <<>>)

deduplicate_listings(listings, fields) == dedup_loop(listings, fields, 1, {}, <<>>)

(***************************************************************************)
(* utils_filters.compute_deltas                                            *)
(***************************************************************************)
\* mutant: d.setdefault(key, value), the first listing of a key wins
dict_setdefault(d, key, value) ==
    IF \E j \in 1..Len(d) : d[j].key = key
    THEN d
    ELSE Append(d, [key |-> key, value |-> value])

\* d[key] = value on an insertion-ordered dict: an existing key keeps its
\* position and takes the new value, a new key is appended
dict_set(d, key, value) ==
    IF \E j \in 1..Len(d) : d[j].key = key
    THEN [j \in 1..Len(d) |-> IF d[j].key = key THEN [key |-> key, value |-> value] ELSE d[j]]
    ELSE Append(d, [key |-> key, value |-> value])

dict_has(d, key) == \E j \in 1..Len(d) : d[j].key = key

\* mutant: the `if key:` guard is missing, a listing without a key is indexed
\* under None
RECURSIVE build_index_unguarded(_, _, _, _)
build_index_unguarded(listings, fields, i, index) ==
    IF i > Len(listings) THEN index
    ELSE build_index_unguarded(listings, fields, i + 1,
             dict_set(index, _build_id_key(listings[i], fields), listings[i]))

RECURSIVE build_index(_, _, _, _)
build_index(listings, fields, i, index) ==
    IF i > Len(listings) THEN index
    ELSE LET key == _build_id_key(listings[i], fields)
         IN  IF Truthy(key)
             THEN build_index(listings, fields, i + 1, dict_set(index, key, listings[i]))
             ELSE build_index(listings, fields, i + 1, index)

\* mutant: `if key in b` in place of `if key not in b`
RECURSIVE items_in(_, _, _, _)
items_in(a, b, j, out) ==
    IF j > Len(a) THEN out
    ELSE IF dict_has(b, a[j].key)
         THEN items_in(a, b, j + 1, Append(out, a[j].value))
         ELSE items_in(a, b, j + 1, out)

\* for key, listing in a.items(): if key not in b: out.append(listing)
RECURSIVE items_not_in(_, _, _, _)
items_not_in(a, b, j, out) ==
    IF j > Len(a) THEN out
    ELSE IF ~dict_has(b, a[j].key)
         THEN items_not_in(a, b, j + 1, Append(out, a[j].value))
         ELSE items_not_in(a, b, j + 1, out)

\* mutant: the two results are returned in the other order
compute_deltas_swapped(cur, prev, fields) ==
    LET prev_index == build_index(prev, fields, 1, <<>>)
        curr_index == build_index(cur, fields, 1, <<>>)
    IN  [new |-> items_not_in(prev_index, curr_index, 1, <<>>),
         delisted |-> items_not_in(curr_index, prev_index, 1, <<>>)]

compute_deltas(cur, prev, fields) ==
    LET prev_index == build_index(prev, fields, 1, <<>>)
        curr_index == build_index(cur, fields, 1, <<>>)
    IN  [new |-> items_not_in(curr_index, prev_index, 1, <<>>),
         delisted |-> items_not_in(prev_index, curr_index, 1, <<>>)]

(***************************************************************************)
(* Specification of the filter functions: the inputs are drawn in the      *)
(* initial state, every action applies one function to them.               *)
(***************************************************************************)
\* no scrape_search call is under way
NoScrape ==
    /\ pc = "idle"
    /\ page_cards = <<>>
    /\ result_cap = None
    /\ card_index = 0
    /\ result_listings = <<>>
    /\ fetched = <<>>
    /\ requests = <<>>
    /\ now = 0

SeqsOfLen(S, n) == {s \in SeqsUpTo(S, n) : Len(s) = n}

\* every (current, previous) with Len(current) + Len(previous) <= MaxTotal
FilterInputs ==
    UNION {SeqsOfLen(Listings, n) \X SeqsUpTo(Listings, MaxTotal - n) : n \in 0..MaxTotal}

Init ==
    /\ \E p \in FilterInputs : current = p[1] /\ previous = p[2]
    /\ id_fields \in IdFieldOrders
    /\ op = "input"
    /\ keys = <<>>
    /\ unique = <<>>
    /\ twice = <<>>
    /\ prev_arg = <<>>
    /\ new_listings = <<>>
    /\ delisted_listings = <<>>
    /\ snapshot_file = [kind |-> "absent"]
    /\ run = [kind |-> "idle", monitoring |-> FALSE, save |-> "none"]
    /\ previous_snapshot = <<>>
    /\ unique_listings = <<>>
    /\ scraped_listings = <<>>
    /\ NoScrape

CallBuildIdKey ==
    /\ op = "input"
    /\ current # <<>>
    /\ keys' = [i \in 1..Len(current) |-> _build_id_key(current[i], id_fields)]
    /\ op' = "key"
    /\ UNCHANGED <<current, previous, id_fields, unique, twice, prev_arg,
                   new_listings, delisted_listings>>
    /\ UNCHANGED runVars
    /\ UNCHANGED scrapeVars

CallDeduplicate ==
    /\ op = "input"
    /\ unique' = deduplicate_listings(current, id_fields)
    /\ op' = "dedup"
    /\ UNCHANGED <<current, previous, id_fields, keys, twice, prev_arg,
                   new_listings, delisted_listings>>
    /\ UNCHANGED runVars
    /\ UNCHANGED scrapeVars

CallDeduplicateAgain ==
    /\ op = "dedup"
    /\ twice' = deduplicate_listings(unique, id_fields)
    /\ op' = "dedup2"
    /\ UNCHANGED <<current, previous, id_fields, keys, unique, prev_arg,
                   new_listings, delisted_listings>>
    /\ UNCHANGED runVars
    /\ UNCHANGED scrapeVars

\* compute_deltas(current, previous) and compute_deltas(current, current)
CallComputeDeltas ==
    /\ op = "input"
    /\ \E p \in {previous, current} :
          LET d == compute_deltas(current, p, id_fields)
          IN  /\ prev_arg' = p
              /\ new_listings' = d.new
              /\ delisted_listings' = d.delisted
    /\ op' = "deltas"
    /\ UNCHANGED <<current, previous, id_fields, keys, unique, twice>>
    /\ UNCHANGED runVars
    /\ UNCHANGED scrapeVars

Next ==
    \/ CallBuildIdKey
    \/ CallDeduplicate
    \/ CallDeduplicateAgain
    \/ CallComputeDeltas

Spec == Init /\ [][Next]_vars

(***************************************************************************)
(* JSON documents, json.dump and json.load.                                *)
(***************************************************************************)
JNull == [j |-> "null"]

JString(s) == [j |-> "string", s |-> s]

JNumber(n) == [j |-> "number", n |-> n]

JObject(members) == [j |-> "object", members |-> members]

JArray(items) == [j |-> "array", items |-> items]

\* mutant: None is written as str(None)
json_encode_value_str(v) == IF v = None THEN JString("None") ELSE JString(v[1])

\* json.dump of an Optional[str]
json_encode_value(v) == IF v = None THEN JNull ELSE JString(v[1])

\* json.dump of a listing dict
json_encode_listing(l) ==
    JObject([f \in DOMAIN l |-> json_encode_value(l[f])])

json_dump(listings) ==
    JArray([i \in 1..Len(listings) |-> json_encode_listing(listings[i])])

\* json.load of a scalar or of an object of scalars
json_decode_scalar(v) ==
    CASE v.j = "null" -> None
      [] v.j = "string" -> Str(v.s)
      [] v.j = "number" -> [int |-> v.n]

json_decode(v) ==
    IF v.j = "object"
    THEN [f \in DOMAIN v.members |-> json_decode_scalar(v.members[f])]
    ELSE json_decode_scalar(v)

is_dict(x) == "int" \notin DOMAIN x

(***************************************************************************)
(* The snapshot file.                                                      *)
(*   [kind |-> "absent"]       no file at the path                         *)
(*   [kind |-> "unreadable"]   a file that open() refuses                  *)
(*   [kind |-> "garbage"]      a file whose text is no JSON document       *)
(*   [kind |-> "json", doc]    a file holding the JSON document doc        *)
(***************************************************************************)
NotAListDoc == JObject([not |-> JString("a list")])

NonRecordListDoc == JArray(<<JNumber(1)>>)

\* contents the file can be given from outside the program
ExternalFiles ==
    {[kind |-> "absent"], [kind |-> "unreadable"], [kind |-> "garbage"],
     [kind |-> "json", doc |-> NotAListDoc],
     [kind |-> "json", doc |-> NonRecordListDoc]}

\* utils_filters.load_snapshot
load_snapshot(file) ==
    IF file.kind = "absent" THEN <<>>
    ELSE IF file.kind \in {"unreadable", "garbage"} THEN <<>>
    ELSE IF file.doc.j = "array"
         THEN [i \in 1..Len(file.doc.items) |-> json_decode(file.doc.items[i])]
         ELSE <<>>

\* how a save_snapshot call ends: the write succeeds, mkdir or open raises
\* (nothing written), or the write raises after open("w") truncated the file
SaveOutcomes == {"ok", "fail_before_open", "fail_dump"}

\* mutant: the file is opened with "a": the document is added to the old text
save_snapshot_append(file, listings, outcome) ==
    CASE outcome = "ok" ->
            IF file.kind \in {"absent", "unreadable"}
            THEN [kind |-> "json", doc |-> json_dump(listings)]
            ELSE [kind |-> "garbage"]
      [] outcome = "fail_before_open" -> file
      [] outcome = "fail_dump" -> [kind |-> "garbage"]

\* utils_filters.save_snapshot: the file after the call
save_snapshot(file, listings, outcome) ==
    CASE outcome = "ok" -> [kind |-> "json", doc |-> json_dump(listings)]
      [] outcome = "fail_before_open" -> file
      [] outcome = "fail_dump" -> [kind |-> "garbage"]

(***************************************************************************)
(* zoopla_parser: the card phase, as far as the identity fields and the    *)
(* title go.  _enrich_from_detail_page assigns none of uprn, url, title.   *)
(***************************************************************************)
BaseScheme == "https"

BaseOrigin == "https://www.zoopla.co.uk"

\* an href in one of the shapes _normalize_url tells apart
PathHref(v) == [form |-> "path", v |-> v]

ProtocolRelativeHref(v) == [form |-> "protocol_relative", v |-> v]

\* zoopla_parser._normalize_url with a base on BaseOrigin
_normalize_url(href) ==
    CASE href.form = "protocol_relative" -> BaseScheme \o ":" \o href.v
      [] href.form = "path" -> BaseOrigin \o href.v
      [] href.form = "absolute" -> href.v

\* a card: the text of its title element (None when there is none) and the
\* href of its first anchor (None when it has no anchor)
Cards ==
    {[title |-> Str("t1"), href |-> Str(PathHref("/a"))],
     [title |-> None, href |-> Str(ProtocolRelativeHref("//www.zoopla.co.uk/a"))],
     [title |-> Str("t1"), href |-> Str(PathHref("/b"))],
     [title |-> Str("t1"), href |-> None]}

\* mutant: the title is also stored as the reference number
_parse_listing_card_title_as_uprn(card) ==
    [title |-> IF Truthy(card.title) THEN card.title ELSE Str(""),
     uprn |-> card.title,
     url |-> IF card.href = None THEN None ELSE Str(_normalize_url(card.href[1]))]

\* zoopla_parser._parse_listing_card, then asdict
_parse_listing_card(card) ==
    [title |-> IF Truthy(card.title) THEN card.title ELSE Str(""),
     uprn |-> None,
     url |-> IF card.href = None THEN None ELSE Str(_normalize_url(card.href[1]))]

\* the card loop of scrape_search
RECURSIVE scrape_cards(_, _, _, _)
scrape_cards(cards, max_results, i, listings) ==
    IF i > Len(cards) \/ Len(listings) >= max_results THEN listings
    ELSE scrape_cards(cards, max_results, i + 1,
                      Append(listings, _parse_listing_card(cards[i])))

\* zoopla_parser.scrape_search on a search page: the fetch fails, or it
\* returns a page with these cards
scrape_search(page, max_results) ==
    IF ~page.ok THEN <<>> ELSE scrape_cards(page.cards, max_results, 1, <<>>)

(***************************************************************************)
(* runner.run_scraper                                                      *)
(***************************************************************************)
DefaultMaxListingsPerSearch == 200

MaxPerSearchChoices == {1, DefaultMaxListingsPerSearch}

\* the search pages of a run: at most u pages serving at most c cards
RECURSIVE PageSeqs(_, _)
PageSeqs(u, c) ==
    IF u = 0 THEN {<<>>}
    ELSE {<<>>} \cup
         {<<[ok |-> FALSE, cards |-> <<>>]>> \o rest : rest \in PageSeqs(u - 1, c)} \cup
         UNION {{<<[ok |-> TRUE, cards |-> cs]>> \o rest : rest \in PageSeqs(u - 1, c - Len(cs))} :
                   cs \in SeqsUpTo(Cards, c)}

RunInputs == PageSeqs(MaxUrls, MaxCards)

\* the loop over search_urls
RECURSIVE scrape_all(_, _, _, _)
scrape_all(pages, max_results, i, all_listings) ==
    IF i > Len(pages) THEN all_listings
    ELSE scrape_all(pages, max_results, i + 1,
                    all_listings \o scrape_search(pages[i], max_results))

Ended(kind, monitoring, save) == [kind |-> kind, monitoring |-> monitoring, save |-> save]

InitRun ==
    /\ current = <<>>
    /\ previous = <<>>
    /\ id_fields = DefaultIdFields
    /\ op = "input"
    /\ keys = <<>>
    /\ unique = <<>>
    /\ twice = <<>>
    /\ prev_arg = <<>>
    /\ new_listings = <<>>
    /\ delisted_listings = <<>>
    /\ snapshot_file = [kind |-> "absent"]
    /\ run = Ended("idle", FALSE, "none")
    /\ previous_snapshot = <<>>
    /\ unique_listings = <<>>
    /\ scraped_listings = <<>>
    /\ NoScrape

\* what the scraping loop of a run can collect: for every choice of search
\* pages and of max_per_search, whether there was a search URL at all and
\* the all_listings accumulated over the pages, with the unique_listings
\* that deduplicate_listings makes of them
Scrapes ==
    {[has_urls |-> r.has_urls, all_listings |-> r.all_listings,
      unique_listings |-> deduplicate_listings(r.all_listings, DefaultIdFields)] :
        r \in {[has_urls |-> pages # <<>>, all_listings |-> scrape_all(pages, m, 1, <<>>)] :
                  pages \in RunInputs, m \in MaxPerSearchChoices}}

\* one call of run_scraper, from its arguments to its return, exit or crash
run_scraper ==
    /\ \E scraped \in Scrapes, monitoring_enabled \in BOOLEAN,
          loaded \in {load_snapshot(snapshot_file)} :
           LET collected == scraped.all_listings
               deduplicated == scraped.unique_listings
           IN  IF ~scraped.has_urls
               THEN \* sys.exit(1)
                    /\ run' = Ended("exit", monitoring_enabled, "none")
                    /\ unique_listings' = <<>>
                    /\ scraped_listings' = collected
                    /\ previous_snapshot' = <<>>
                    /\ new_listings' = <<>>
                    /\ delisted_listings' = <<>>
                    /\ UNCHANGED snapshot_file
               ELSE IF collected = <<>>
               THEN \* "No listings collected from any search URL."
                    /\ run' = Ended("empty", monitoring_enabled, "none")
                    /\ unique_listings' = <<>>
                    /\ scraped_listings' = collected
                    /\ previous_snapshot' = <<>>
                    /\ new_listings' = <<>>
                    /\ delisted_listings' = <<>>
                    /\ UNCHANGED snapshot_file
               ELSE IF ~monitoring_enabled
               THEN /\ run' = Ended("done", FALSE, "none")
                    /\ unique_listings' = deduplicated
                    /\ scraped_listings' = collected
                    /\ previous_snapshot' = <<>>
                    /\ new_listings' = <<>>
                    /\ delisted_listings' = <<>>
                    /\ UNCHANGED snapshot_file
               ELSE IF \E i \in 1..Len(loaded) : ~is_dict(loaded[i])
               THEN \* listing.get raises AttributeError in compute_deltas
                    /\ run' = Ended("crashed", TRUE, "none")
                    /\ unique_listings' = deduplicated
                    /\ scraped_listings' = collected
                    /\ previous_snapshot' = loaded
                    /\ new_listings' = <<>>
                    /\ delisted_listings' = <<>>
                    /\ UNCHANGED snapshot_file
               ELSE \E d \in {compute_deltas(deduplicated, loaded, DefaultIdFields)},
                       outcome \in SaveOutcomes :
                        /\ run' = Ended("done", TRUE, outcome)
                        /\ unique_listings' = deduplicated
                        /\ scraped_listings' = collected
                        /\ previous_snapshot' = loaded
                        /\ new_listings' = d.new
                        /\ delisted_listings' = d.delisted
                        /\ snapshot_file' = save_snapshot(snapshot_file, deduplicated, outcome)
    /\ UNCHANGED filterVars
    /\ UNCHANGED scrapeVars

\* between two runs the file is removed, protected or rewritten from outside
ExternalEdit ==
    /\ \E file \in ExternalFiles :
          /\ file # snapshot_file
          /\ snapshot_file' = file
    /\ run' = Ended("idle", FALSE, "none")
    /\ unique_listings' = <<>>
    /\ scraped_listings' = <<>>
    /\ previous_snapshot' = <<>>
    /\ new_listings' = <<>>
    /\ delisted_listings' = <<>>
    /\ UNCHANGED filterVars
    /\ UNCHANGED scrapeVars

NextRun ==
    \/ run_scraper
    \/ ExternalEdit

SpecRun == InitRun /\ [][NextRun]_vars

(***************************************************************************)
(* Text that the parser inspects character by character is a sequence of   *)
(* one-character strings.                                                  *)
(***************************************************************************)
UpperLetters ==
    <<"A", "B", "C", "D", "E", "F", "G", "H", "I", "J", "K", "L", "M",
      "N", "O", "P", "Q", "R", "S", "T", "U", "V", "W", "X", "Y", "Z">>

LowerLetters ==
    <<"a", "b", "c", "d", "e", "f", "g", "h", "i", "j", "k", "l", "m",
      "n", "o", "p", "q", "r", "s", "t", "u", "v", "w", "x", "y", "z">>

DecimalDigits == <<"0", "1", "2", "3", "4", "5", "6", "7", "8", "9">>

\* a character for which str.isdigit() is true and that int() rejects
SuperscriptTwo == "^2"

IndexIn(seq, c) == CHOOSE k \in 1..Len(seq) : seq[k] = c

IsIn(seq, c) == \E k \in 1..Len(seq) : seq[k] = c

\* str.upper() and str.lower()
to_upper(text) ==
    [k \in 1..Len(text) |->
        IF IsIn(LowerLetters, text[k]) THEN UpperLetters[IndexIn(LowerLetters, text[k])]
        ELSE text[k]]

to_lower(text) ==
    [k \in 1..Len(text) |->
        IF IsIn(UpperLetters, text[k]) THEN LowerLetters[IndexIn(UpperLetters, text[k])]
        ELSE text[k]]

\* `sub in text`
contains(text, sub) ==
    \E p \in 0..(Len(text) - Len(sub)) : \A k \in 1..Len(sub) : text[p + k] = sub[k]

\* the regular expression classes [A-Z], \d, \s and \w on an uppercased text
IsUpperAt(text, p) == p >= 1 /\ p <= Len(text) /\ IsIn(UpperLetters, text[p])

IsDigitAt(text, p) == p >= 1 /\ p <= Len(text) /\ IsIn(DecimalDigits, text[p])

IsSpaceAt(text, p) == p >= 1 /\ p <= Len(text) /\ text[p] = " "

IsWordAt(text, p) ==
    /\ p >= 1 /\ p <= Len(text)
    /\ (IsIn(UpperLetters, text[p]) \/ IsIn(LowerLetters, text[p])
        \/ IsIn(DecimalDigits, text[p]) \/ text[p] = "_")

\* \s* from position p: the position after the run of spaces
RECURSIVE skip_spaces(_, _)
skip_spaces(text, p) == IF IsSpaceAt(text, p) THEN skip_spaces(text, p + 1) ELSE p

\* \s*\d[A-Z]{2}\b from position p: the position after the match, 0 when
\* there is none (a space is no digit, so giving spaces back never helps)
postcode_tail(text, p) ==
    LET q == skip_spaces(text, p)
    IN  IF /\ IsDigitAt(text, q) /\ IsUpperAt(text, q + 1) /\ IsUpperAt(text, q + 2)
           /\ ~IsWordAt(text, q + 3)
        THEN q + 3 ELSE 0

\* [A-Z]?\s*\d[A-Z]{2}\b from position p, the optional letter tried first
postcode_after_digits(text, p) ==
    IF IsUpperAt(text, p) /\ postcode_tail(text, p + 1) # 0
    THEN postcode_tail(text, p + 1)
    ELSE postcode_tail(text, p)

\* \d{1,2}[A-Z]?\s*\d[A-Z]{2}\b from position p, two digits tried first
postcode_after_letters(text, p) ==
    IF ~IsDigitAt(text, p) THEN 0
    ELSE IF IsDigitAt(text, p + 1) /\ postcode_after_digits(text, p + 2) # 0
         THEN postcode_after_digits(text, p + 2)
         ELSE postcode_after_digits(text, p + 1)

\* \b[A-Z]{1,2}\d{1,2}[A-Z]?\s*\d[A-Z]{2}\b at position p, two letters tried
\* first: the position after the match, 0 when there is none
postcode_match_at(text, p) ==
    IF ~IsUpperAt(text, p) \/ IsWordAt(text, p - 1) THEN 0
    ELSE IF IsUpperAt(text, p + 1) /\ postcode_after_letters(text, p + 2) # 0
         THEN postcode_after_letters(text, p + 2)
         ELSE postcode_after_letters(text, p + 1)

\* zoopla_parser._extract_postcode on a str (the caller passes `address or ""`)
_extract_postcode(text) ==
    IF text = <<>> THEN None
    ELSE LET upper == to_upper(text)
             starts == {p \in 1..Len(upper) : postcode_match_at(upper, p) # 0}
         IN  IF starts = {} THEN None
             ELSE LET p == CHOOSE q \in starts : \A r \in starts : q <= r
                  IN  Str(SubSeq(upper, p, postcode_match_at(upper, p) - 1))

(***************************************************************************)
(* zoopla_parser, every field of PropertyListing.  A text is a sequence of *)
(* characters; a URL stays a string, as in the reduced card phase above.   *)
(* What the selectors of one _extract_text call find is a sequence with    *)
(* one entry per selector: None when select_one finds no element, else     *)
(* Str(text) with the text of the element.                                 *)
(***************************************************************************)
PyInt(n) == [int |-> n]

\* `if value:` on an Optional[str] held as a text
TruthyText(v) == v # None /\ v[1] # <<>>

RECURSIVE lstrip(_)
lstrip(text) == IF text # <<>> /\ Head(text) = " " THEN lstrip(Tail(text)) ELSE text

RECURSIVE rstrip(_)
rstrip(text) ==
    IF text # <<>> /\ text[Len(text)] = " "
    THEN rstrip(SubSeq(text, 1, Len(text) - 1)) ELSE text

\* str.strip(), and get_text(" ", strip=True) of an element with one string
strip(text) == rstrip(lstrip(text))

RECURSIVE extract_text_from(_, _)
extract_text_from(elements, k) ==
    IF k > Len(elements) THEN None
    ELSE IF elements[k] # None /\ strip(elements[k][1]) # <<>>
         THEN Str(strip(elements[k][1]))
         ELSE extract_text_from(elements, k + 1)

\* zoopla_parser._extract_text
_extract_text(elements) == extract_text_from(elements, 1)

\* str.isdigit()
isdigit(c) == IsIn(DecimalDigits, c) \/ c = SuperscriptTwo

\* int() of a string of decimal digits
RECURSIVE int_of(_)
int_of(digits) ==
    IF digits = <<>> THEN 0
    ELSE 10 * int_of(SubSeq(digits, 1, Len(digits) - 1))
         + (IndexIn(DecimalDigits, digits[Len(digits)]) - 1)

\* mutant: a text without digits counts as zero
_extract_int_from_text_zero(elements) ==
    LET text == _extract_text(elements)
    IN  IF ~TruthyText(text) THEN None
        ELSE LET digits == SelectSeq(text[1], isdigit)
             IN  IF digits = <<>> THEN PyInt(0)
                 ELSE IF IsIn(digits, SuperscriptTwo) THEN None
                 ELSE PyInt(int_of(digits))

\* zoopla_parser._extract_int_from_text; int() raises ValueError on a digit
\* that is no decimal digit
_extract_int_from_text(elements) ==
    LET text == _extract_text(elements)
    IN  IF ~TruthyText(text) THEN None
        ELSE LET digits == SelectSeq(text[1], isdigit)
             IN  IF digits = <<>> THEN None
                 ELSE IF IsIn(digits, SuperscriptTwo) THEN None
                 ELSE PyInt(int_of(digits))

\* an href urljoin rejects: "//[" opens an IPv6 host and never closes it
MalformedHref(v) == [form |-> "malformed", v |-> v]

\* urljoin(base, href) raises ValueError("Invalid IPv6 URL")
urljoin_raises(href) == href.form = "malformed"

\* the category _parse_listing_card reads from the badge text
category_of(elements) ==
    LET category_text == _extract_text(elements)
    IN  IF ~TruthyText(category_text) THEN None
        ELSE LET lowered == to_lower(category_text[1])
             IN  IF contains(lowered, <<"r", "e", "n", "t">>) THEN Str(<<"r", "e", "n", "t">>)
                 ELSE IF contains(lowered, <<"s", "a", "l", "e">>) \/ contains(lowered, <<"b", "u", "y">>)
                      THEN Str(<<"s", "a", "l", "e">>)
                      ELSE None

\* the property type _parse_listing_card reads, also stored as `type`
property_type_of(elements) ==
    LET property_type_text == _extract_text(elements)
    IN  IF TruthyText(property_type_text) THEN Str(strip(property_type_text[1])) ELSE None

\* zoopla_parser._parse_listing_card followed by asdict, every field; the
\* card's href is one _normalize_url accepts
_parse_listing_card_fields(card) ==
    LET title == _extract_text(card.title)
    IN  [title |-> IF TruthyText(title) THEN title ELSE Str(<<>>),
         uprn |-> None,
         address |-> _extract_text(card.address),
         epc |-> None,
         epcRating |-> None,
         bedrooms |-> _extract_int_from_text(card.bed),
         bathrooms |-> _extract_int_from_text(card.bath),
         livingroom |-> None,
         price |-> _extract_text(card.price),
         description |-> None,
         coordinates |-> None,
         category |-> category_of(card.badge),
         type |-> property_type_of(card.property_type),
         agent |-> _extract_text(card.agent),
         agentPhone |-> None,
         images |-> <<>>,
         priceHistory |-> <<>>,
         pointsOfInterest |-> <<>>,
         propertyType |-> property_type_of(card.property_type),
         postalCode |-> None,
         features |-> <<>>,
         url |-> IF card.href = None THEN None ELSE Str(_normalize_url(card.href[1]))]

\* the features list: the li texts of both selectors, blanks and repeats
\* left out
RECURSIVE collect_features(_, _, _)
collect_features(items, k, features) ==
    IF k > Len(items) THEN features
    ELSE LET text == strip(items[k])
         IN  collect_features(items, k + 1,
                 IF text # <<>> /\ ~IsIn(features, text)
                 THEN Append(features, text) ELSE features)

\* the images list before list(dict.fromkeys(...)): the normalized src of
\* every img whose src names zoocdn.com
RECURSIVE collect_images(_, _, _)
collect_images(imgs, k, images) ==
    IF k > Len(imgs) THEN images
    ELSE collect_images(imgs, k + 1,
             IF imgs[k].zoocdn THEN Append(images, _normalize_url(imgs[k].src))
             ELSE images)

\* list(dict.fromkeys(images))
RECURSIVE first_occurrences(_, _, _)
first_occurrences(images, k, out) ==
    IF k > Len(images) THEN out
    ELSE first_occurrences(images, k + 1,
             IF IsIn(out, images[k]) THEN out ELSE Append(out, images[k]))

\* str() of a non-negative int
RECURSIVE str_of_int(_)
str_of_int(n) ==
    IF n < 10 THEN <<DecimalDigits[n + 1]>>
    ELSE str_of_int(n \div 10) \o <<DecimalDigits[(n % 10) + 1]>>

\* `if lat and lon` on what data.get returns: None and 0 are falsy
TruthyNumber(v) == v # None /\ v.int # 0

\* zoopla_parser._extract_coordinates_from_scripts.  A script is
\*   [kind |-> "other"]  without both of the words latitude and longitude,
\*   [kind |-> "json", latitude, longitude]  holding a JSON object with
\*       these members (None: null or no such member),
\*   [kind |-> "text", latitude, longitude]  whose candidate json.loads
\*       rejects; the fields are what the fallback patterns capture
RECURSIVE coordinates_from(_, _)
coordinates_from(scripts, k) ==
    IF k > Len(scripts) THEN None
    ELSE LET script == scripts[k]
         IN  IF /\ script.kind = "json"
                /\ TruthyNumber(script.latitude)
                /\ TruthyNumber(script.longitude)
             THEN [latitude |-> Str(str_of_int(script.latitude.int)),
                   longitude |-> Str(str_of_int(script.longitude.int))]
             ELSE IF /\ script.kind = "text"
                     /\ script.latitude # None
                     /\ script.longitude # None
                  THEN [latitude |-> script.latitude, longitude |-> script.longitude]
                  ELSE coordinates_from(scripts, k + 1)

_extract_coordinates_from_scripts(soup) == coordinates_from(soup.scripts, 1)

\* zoopla_parser._enrich_from_detail_page on the parsed detail page
_enrich_from_detail_page(listing, soup) ==
    LET description == _extract_text(soup.description)
        epc_rating == _extract_text(soup.epc_rating)
        agent_phone == _extract_text(soup.agent_phone)
        address == _extract_text(soup.address)
        coords == _extract_coordinates_from_scripts(soup)
    IN  [listing EXCEPT
            !.description = IF TruthyText(description) THEN Str(strip(description[1])) ELSE @,
            !.epcRating = IF TruthyText(epc_rating) THEN Str(strip(epc_rating[1])) ELSE @,
            !.epc = IF soup.epc_img # None THEN Str(_normalize_url(soup.epc_img[1])) ELSE @,
            !.agentPhone = IF TruthyText(agent_phone) THEN Str(strip(agent_phone[1])) ELSE @,
            !.address = IF TruthyText(address) THEN Str(strip(address[1])) ELSE @,
            !.postalCode = _extract_postcode(IF TruthyText(address) THEN address[1] ELSE <<>>),
            !.features = collect_features(soup.features[2], 1,
                                          collect_features(soup.features[1], 1, <<>>)),
            !.images = first_occurrences(collect_images(soup.imgs, 1, <<>>), 1, <<>>),
            !.coordinates = IF coords # None THEN coords ELSE @]

(***************************************************************************)
(* The cards and detail pages the scraper is run on.                       *)
(***************************************************************************)
\* a card with every element and an address that holds a postcode
FullCard ==
    [title |-> <<Str(<<"F", "l", "a", "t">>)>>,
     price |-> <<None, Str(<<"9", "5", "0", " ", "p", "c", "m">>)>>,
     address |-> <<Str(<<"a", " ", "R", "d", " ", "s", "e", "1", " ", "2", "A", "A">>)>>,
     href |-> Str(PathHref("/a")),
     badge |-> <<Str(<<"T", "o", " ", "R", "e", "n", "t">>)>>,
     property_type |-> <<None, Str(<<"F", "l", "a", "t">>)>>,
     agent |-> <<Str(<<"A", "g">>)>>,
     bed |-> <<Str(<<"2", " ", "b", "e", "d", "s">>)>>,
     bath |-> <<Str(<<"1">>)>>]

\* a card without an anchor, with texts that hold no number and no category
NoAnchorCard ==
    [title |-> <<None, Str(<<"H", "o", "u", "s", "e">>)>>,
     price |-> <<>>,
     address |-> <<Str(<<"H", "i", "g", "h", " ", "S", "t">>)>>,
     href |-> None,
     badge |-> <<Str(<<"N", "e", "w">>)>>,
     property_type |-> <<>>,
     agent |-> <<>>,
     bed |-> <<Str(<<"S", "t", "u", "d", "i", "o">>)>>,
     bath |-> <<>>]

\* a card with an anchor and little else: blank elements, an area in square
\* metres where the bedrooms are looked for, no bathroom
SparseCard ==
    [title |-> <<Str(<<" ", " ">>)>>,
     price |-> <<Str(<<" ">>), None>>,
     address |-> <<>>,
     href |-> Str(ProtocolRelativeHref("//www.zoopla.co.uk/b")),
     badge |-> <<None, Str(<<"F", "o", "r", " ", "S", "a", "l", "e">>)>>,
     property_type |-> <<>>,
     agent |-> <<>>,
     bed |-> <<Str(<<"m", SuperscriptTwo>>)>>,
     bath |-> <<Str(<<"0">>)>>]

\* a card whose anchor urljoin rejects
MalformedCard ==
    [title |-> <<Str(<<"P", "l", "o", "t">>)>>,
     price |-> <<>>,
     address |-> <<>>,
     href |-> Str(MalformedHref("//[")),
     badge |-> <<>>,
     property_type |-> <<>>,
     agent |-> <<>>,
     bed |-> <<>>,
     bath |-> <<>>]

ListingCards == {FullCard, NoAnchorCard, SparseCard, MalformedCard}

\* a detail page with every element, its address another postcode
FullPage ==
    [description |-> <<None, Str(<<" ", "N", "i", "c", "e", " ">>)>>,
     epc_rating |-> <<Str(<<"C">>)>>,
     epc_img |-> Str(PathHref("/epc.png")),
     agent_phone |-> <<Str(<<"0", "2", "0">>)>>,
     address |-> <<Str(<<"n", "1", " ", "9", "g", "u">>)>>,
     features |-> <<<<<<"L", "i", "f", "t">>, <<" ">>, <<"L", "i", "f", "t", " ">>>>, <<<<"G", "a", "r", "d", "e", "n">>>>>>,
     imgs |-> <<[src |-> ProtocolRelativeHref("//lid.zoocdn.com/1.jpg"), zoocdn |-> TRUE],
                [src |-> PathHref("/logo.png"), zoocdn |-> FALSE],
                [src |-> ProtocolRelativeHref("//lid.zoocdn.com/1.jpg"), zoocdn |-> TRUE]>>,
     scripts |-> <<[kind |-> "other"],
                   [kind |-> "json", latitude |-> PyInt(51), longitude |-> PyInt(0)],
                   [kind |-> "text", latitude |-> Str(<<"5", "1", ".", "5">>), longitude |-> Str(<<"-", "0", ".", "1">>)]>>]

\* a detail page with none of the elements
BarePage ==
    [description |-> <<>>,
     epc_rating |-> <<>>,
     epc_img |-> None,
     agent_phone |-> <<>>,
     address |-> <<>>,
     features |-> <<<<>>, <<>>>>,
     imgs |-> <<>>,
     scripts |-> <<>>]

\* a detail page whose address holds no postcode
NoPostcodePage ==
    [description |-> <<Str(<<" ">>)>>,
     epc_rating |-> <<>>,
     epc_img |-> None,
     agent_phone |-> <<>>,
     address |-> <<Str(<<"F", "l", "a", "t", " ", "2">>)>>,
     features |-> <<<<>>, <<>>>>,
     imgs |-> <<>>,
     scripts |-> <<[kind |-> "json", latitude |-> PyInt(51), longitude |-> PyInt(1)]>>]

DetailPages == {FullPage, BarePage, NoPostcodePage}

\* the body of a non-2xx response
ErrorPage ==
    [description |-> <<Str(<<"N", "o", "t", " ", "F", "o", "u", "n", "d">>)>>,
     epc_rating |-> <<>>,
     epc_img |-> None,
     agent_phone |-> <<>>,
     address |-> <<>>,
     features |-> <<<<>>, <<>>>>,
     imgs |-> <<>>,
     scripts |-> <<>>]

(***************************************************************************)
(* zoopla_parser.scrape_search, request by request.  A response is         *)
(*   [kind |-> "ok", body]            a 2xx response with this body,       *)
(*   [kind |-> "http_error", body]    a response with another status,      *)
(*   [kind |-> "network_error", body] none: session.get raises a           *)
(*                                    ConnectionError.                     *)
(* The body of a detail page is the empty text or the parsed page.  The    *)
(* clock counts tenths of a second and a response takes no time to come,   *)
(* the least the network allows.                                           *)
(***************************************************************************)
\* request_delay_seconds = 1.5, in tenths of a second
request_delay_tenths == 15

ResponseKinds == {"ok", "http_error", "network_error"}

DetailResponses ==
    {[kind |-> "ok", body |-> page] : page \in DetailPages} \cup
    {[kind |-> "ok", body |-> <<>>],
     [kind |-> "http_error", body |-> ErrorPage],
     [kind |-> "network_error", body |-> <<>>]}

\* mutant: raise_for_status is not called
_safe_get_unchecked(response) ==
    IF response.kind = "network_error"
    THEN [text |-> None, slept |-> FALSE]
    ELSE [text |-> Str(response.body), slept |-> TRUE]

\* zoopla_parser._safe_get: the text returned and whether time.sleep ran
_safe_get(response) ==
    IF response.kind = "network_error"
    THEN \* session.get raises: the except clause is entered from line 70
         [text |-> None, slept |-> FALSE]
    ELSE IF response.kind = "http_error"
         THEN \* raise_for_status raises, after the sleep
              [text |-> None, slept |-> TRUE]
         ELSE [text |-> Str(response.body), slept |-> TRUE]

\* `max_results is not None and len(listings) >= max_results`
cap_reached(cap, found) == cap # None /\ Len(found) >= cap.int

\* the caps scrape_search is called with: None, or a count
ResultCaps == {None} \cup {PyInt(n) : n \in 0..MaxCards}

SearchUrl == "https://www.zoopla.co.uk/to-rent/"

InitScrape ==
    /\ current = <<>>
    /\ previous = <<>>
    /\ id_fields = DefaultIdFields
    /\ op = "input"
    /\ keys = <<>>
    /\ unique = <<>>
    /\ twice = <<>>
    /\ prev_arg = <<>>
    /\ new_listings = <<>>
    /\ delisted_listings = <<>>
    /\ snapshot_file = [kind |-> "absent"]
    /\ run = Ended("idle", FALSE, "none")
    /\ previous_snapshot = <<>>
    /\ unique_listings = <<>>
    /\ scraped_listings = <<>>
    /\ pc = "search"
    /\ page_cards \in SeqsUpTo(ListingCards, MaxCards)
    /\ result_cap \in ResultCaps
    /\ card_index = 0
    /\ result_listings = <<>>
    /\ fetched = <<>>
    /\ requests = <<>>
    /\ now = 0

\* html = self._safe_get(search_url); if html is None: return []
FetchSearchPage ==
    /\ pc = "search"
    /\ \E kind \in ResponseKinds :
          LET got == _safe_get([kind |-> kind, body |-> page_cards])
          IN  /\ requests' = Append(requests, [url |-> SearchUrl, at |-> now])
              /\ now' = IF got.slept THEN now + request_delay_tenths ELSE now
              /\ pc' = IF got.text = None THEN "returned" ELSE "loop"
    /\ UNCHANGED <<page_cards, result_cap, card_index, result_listings, fetched>>
    /\ UNCHANGED <<filterVars, runVars, new_listings, delisted_listings>>

\* the for loop ends: no card is left, or the cap is reached and it breaks
ReturnListings ==
    /\ pc = "loop"
    /\ card_index = Len(page_cards) \/ cap_reached(result_cap, result_listings)
    /\ pc' = "returned"
    /\ UNCHANGED <<page_cards, result_cap, card_index, result_listings, fetched,
                   requests, now>>
    /\ UNCHANGED <<filterVars, runVars, new_listings, delisted_listings>>

\* the loop takes the next card and parses it; a listing without url is
\* appended at once
ParseCard ==
    /\ pc = "loop"
    /\ card_index < Len(page_cards)
    /\ ~cap_reached(result_cap, result_listings)
    /\ card_index' = card_index + 1
    /\ LET card == page_cards[card_index + 1]
       IN  IF card.href # None /\ urljoin_raises(card.href[1])
           THEN \* ValueError leaves _normalize_url, _parse_listing_card and
                \* scrape_search
                /\ pc' = "raised"
                /\ UNCHANGED <<result_listings, fetched>>
           ELSE LET summary == _parse_listing_card_fields(card)
                IN  IF summary.url = None
                    THEN /\ result_listings' = Append(result_listings, summary)
                         /\ fetched' = Append(fetched, [kind |-> "none", body |-> <<>>])
                         /\ pc' = "loop"
                    ELSE /\ pc' = "detail"
                         /\ UNCHANGED <<result_listings, fetched>>
    /\ UNCHANGED <<page_cards, result_cap, requests, now>>
    /\ UNCHANGED <<filterVars, runVars, new_listings, delisted_listings>>

\* detail_html = self._safe_get(summary.url), the enrichment when there is
\* a text, and the append
FetchDetailPage ==
    /\ pc = "detail"
    /\ \E response \in DetailResponses :
          LET summary == _parse_listing_card_fields(page_cards[card_index])
              got == _safe_get(response)
              listing == IF got.text # None /\ got.text[1] # <<>>
                         THEN _enrich_from_detail_page(summary, got.text[1])
                         ELSE summary
          IN  /\ requests' = Append(requests, [url |-> summary.url[1], at |-> now])
              /\ now' = IF got.slept THEN now + request_delay_tenths ELSE now
              /\ result_listings' = Append(result_listings, listing)
              /\ fetched' = Append(fetched, response)
    /\ pc' = "loop"
    /\ UNCHANGED <<page_cards, result_cap, card_index>>
    /\ UNCHANGED <<filterVars, runVars, new_listings, delisted_listings>>

NextScrape ==
    \/ FetchSearchPage
    \/ ReturnListings
    \/ ParseCard
    \/ FetchDetailPage

SpecScrape == InitScrape /\ [][NextScrape]_vars

(***************************************************************************)
(* Vocabulary of the properties.                                           *)
(***************************************************************************)
\* the subsequence of s at the positions in idx, in increasing order
RECURSIVE PickFrom(_, _, _)
PickFrom(s, idx, i) ==
    IF i > Len(s) THEN <<>>
    ELSE IF i \in idx THEN <<s[i]>> \o PickFrom(s, idx, i + 1)
         ELSE PickFrom(s, idx, i + 1)

Range(s) == {s[i] : i \in 1..Len(s)}

KeyOf(l) == _build_id_key(l, id_fields)

KeySet(s) == {KeyOf(s[i]) : i \in 1..Len(s)} \ {None}

\* a listing that lacks every identity field: no uprn and no url
Keyless(l) == ~Truthy(l.uprn) /\ ~Truthy(l.url)

AllKeyed(s) == \A i \in 1..Len(s) : ~Keyless(s[i])

DistinctKeys(s) == \A i, j \in 1..Len(s) : i # j => KeyOf(s[i]) # KeyOf(s[j])

\* positions of s that carry a key no earlier position carries
FirstOfKey(s) ==
    {i \in 1..Len(s) : KeyOf(s[i]) # None /\ \A j \in 1..(i - 1) : KeyOf(s[j]) # KeyOf(s[i])}

\* the last member of s with the key of s[i]
LastWithKey(s, i) ==
    s[CHOOSE j \in 1..Len(s) :
        /\ KeyOf(s[j]) = KeyOf(s[i])
        /\ \A k \in (j + 1)..Len(s) : KeyOf(s[k]) # KeyOf(s[i])]

\* the identity-keyed index of s, as the list of its values: one entry per
\* key, at the place of the key's first occurrence, holding the last listing
\* with that key; only the keys outside `others` are listed
IndexedOutside(s, others) ==
    LET idx == {i \in FirstOfKey(s) : KeyOf(s[i]) \notin others}
        lasts == [i \in 1..Len(s) |-> LastWithKey(s, i)]
    IN  PickFrom(lasts, idx, 1)

(***************************************************************************)
(* C1. deduplicate_listings returns the input in first-seen order, keeping *)
(* for every identity key only the first listing that carries it and       *)
(* keeping every listing that has no identity key.                         *)
(***************************************************************************)
C1_DedupKeepsFirstPerKey ==
    op = "dedup" =>
        unique = PickFrom(current,
                          {i \in 1..Len(current) :
                              KeyOf(current[i]) = None \/ i \in FirstOfKey(current)},
                          1)

C1_Witness ==
    /\ op = "dedup"
    /\ Len(current) = 3
    /\ KeyOf(current[1]) # None
    /\ KeyOf(current[2]) = KeyOf(current[1])
    /\ current[2].title # current[1].title
    /\ Keyless(current[3])
    /\ unique = <<current[1], current[3]>>

(***************************************************************************)
(* C2. compute_deltas(current, previous): new is the list of current's     *)
(* index entries whose key is no key of previous, delisted the list of     *)
(* previous's index entries whose key is no key of current; the entry of a *)
(* key that occurs several times in one input is the last listing with it. *)
(***************************************************************************)
C2_DeltasAreIndexDifferences ==
    op = "deltas" =>
        /\ new_listings = IndexedOutside(current, KeySet(prev_arg))
        /\ delisted_listings = IndexedOutside(prev_arg, KeySet(current))

C2_Witness ==
    /\ op = "deltas"
    /\ Len(current) = 2
    /\ KeyOf(current[1]) # None
    /\ KeyOf(current[1]) = KeyOf(current[2])
    /\ current[1] # current[2]
    /\ new_listings = <<current[2]>>
    /\ Len(prev_arg) = 1
    /\ delisted_listings = prev_arg

(***************************************************************************)
(* C3. No listing without uprn and without url is in new or in delisted.   *)
(***************************************************************************)
C3_KeylessNeverInDeltas ==
    op = "deltas" =>
        \A l \in Range(new_listings) \cup Range(delisted_listings) : ~Keyless(l)

C3_Witness ==
    /\ op = "deltas"
    /\ \E i \in 1..Len(current) :
          /\ Keyless(current[i])
          /\ current[i] \notin Range(prev_arg)
    /\ \E i \in 1..Len(prev_arg) :
          /\ Keyless(prev_arg[i])
          /\ prev_arg[i] \notin Range(current)
    /\ Len(new_listings) = 1
    /\ delisted_listings = <<>>

(***************************************************************************)
(* C4. compute_deltas(X, X) is ([], []) when every member of X has an      *)
(* identity key.                                                           *)
(***************************************************************************)
C4_SelfDeltaEmpty ==
    (op = "deltas" /\ prev_arg = current /\ AllKeyed(current)) =>
        (new_listings = <<>> /\ delisted_listings = <<>>)

C4_Witness ==
    /\ op = "deltas"
    /\ prev_arg = current
    /\ AllKeyed(current)
    /\ Len(current) = 3
    /\ KeyOf(current[1]) # KeyOf(current[2])
    /\ KeyOf(current[3]) = KeyOf(current[1])
    /\ new_listings = <<>>
    /\ delisted_listings = <<>>

(***************************************************************************)
(* C5 as stated: for A and B disjoint by identity key, new = A when B is   *)
(* empty and delisted = B when A is empty.                                 *)
(***************************************************************************)
C5_Original ==
    (op = "deltas" /\ KeySet(current) \cap KeySet(prev_arg) = {}) =>
        /\ prev_arg = <<>> => new_listings = current
        /\ current = <<>> => delisted_listings = prev_arg

(***************************************************************************)
(* C5 amended: for A and B disjoint by identity key whose members all have *)
(* an identity key, no two members of one input sharing a key, new = A     *)
(* when B is empty and delisted = B when A is empty.                       *)
(***************************************************************************)
C5_DeltaAgainstEmpty ==
    (/\ op = "deltas"
     /\ KeySet(current) \cap KeySet(prev_arg) = {}
     /\ AllKeyed(current) /\ DistinctKeys(current)
     /\ AllKeyed(prev_arg) /\ DistinctKeys(prev_arg)) =>
        /\ prev_arg = <<>> => new_listings = current
        /\ current = <<>> => delisted_listings = prev_arg

C5_Witness ==
    /\ op = "deltas"
    /\ prev_arg = <<>>
    /\ Len(current) = 2
    /\ AllKeyed(current) /\ DistinctKeys(current)
    /\ new_listings = current
    /\ delisted_listings = <<>>

(***************************************************************************)
(* C6. deduplicate_listings is idempotent: a second application returns    *)
(* the result of the first, same elements in the same order.               *)
(***************************************************************************)
C6_DedupIdempotent == op = "dedup2" => twice = unique

C6_Witness ==
    /\ op = "dedup2"
    /\ Len(current) = 3
    /\ Len(unique) = 2
    /\ unique[1] # unique[2]
    /\ twice = unique

(***************************************************************************)
(* C7. The identity key is "field:value" for the first field of the        *)
(* priority order whose value is present and non-empty, and absent when    *)
(* no priority field has such a value.                                     *)
(***************************************************************************)
C7_KeyIsFirstPresentField ==
    op = "key" =>
        \A i \in 1..Len(current) :
            LET l == current[i]
                present == {j \in 1..Len(id_fields) :
                               l[id_fields[j]] # None /\ l[id_fields[j]][1] # ""}
            IN  IF present = {} THEN keys[i] = None
                ELSE LET j == CHOOSE m \in present : \A n \in present : m <= n
                     IN  keys[i] = Str(id_fields[j] \o ":" \o l[id_fields[j]][1])

C7_Witness ==
    /\ op = "key"
    /\ id_fields = DefaultIdFields
    /\ Len(current) = 3
    /\ current[1].uprn = Str("") /\ current[1].url # None
    /\ keys[1] = Str("url:https://www.zoopla.co.uk/a")
    /\ current[2].uprn = Str("u1") /\ current[2].url # None
    /\ keys[2] = Str("uprn:u1")
    /\ Keyless(current[3])
    /\ keys[3] = None

(***************************************************************************)
(* Vocabulary of the properties of load_snapshot, save_snapshot and        *)
(* run_scraper.                                                            *)
(***************************************************************************)
\* the file holds a sequence of listing records
HoldsRecords(file) ==
    /\ file.kind = "json"
    /\ file.doc.j = "array"
    /\ \A i \in 1..Len(file.doc.items) : file.doc.items[i].j = "object"

StoredRecords(file) ==
    [i \in 1..Len(file.doc.items) |-> json_decode(file.doc.items[i])]

\* the last step was a monitored run that called load_snapshot
LoadedSnapshot(r) == r.monitoring /\ r.kind \in {"done", "crashed"}

\* the last step was a monitored run whose save_snapshot call failed
SaveFailed(r) == r.kind = "done" /\ r.save \in {"fail_before_open", "fail_dump"}

(***************************************************************************)
(* C8. load_snapshot returns the empty sequence whenever the file is       *)
(* absent, is unreadable or holds anything but a sequence of listing       *)
(* records (a JSON object, a JSON list whose elements are no records), and *)
(* the stored listings otherwise.                                          *)
(***************************************************************************)
C8_Original ==
    [][LoadedSnapshot(run') =>
          previous_snapshot' = IF HoldsRecords(snapshot_file)
                               THEN StoredRecords(snapshot_file)
                               ELSE <<>>]_vars

(***************************************************************************)
(* C9. After a save_snapshot whose write failed, load_snapshot returns     *)
(* what it returned before the call: the snapshot saved earlier is neither *)
(* destroyed nor replaced.                                                 *)
(***************************************************************************)
C9_Original ==
    [][SaveFailed(run') =>
          load_snapshot(snapshot_file') = load_snapshot(snapshot_file)]_vars

(***************************************************************************)
(* C10 as stated: after every monitored run with at least one search URL   *)
(* the stored snapshot equals that run's all_listings.                     *)
(***************************************************************************)
C10_Original ==
    (run.monitoring /\ run.kind \in {"empty", "crashed", "done"}) =>
        load_snapshot(snapshot_file) = unique_listings

(***************************************************************************)
(* C10 amended: after a monitored run that collected at least one listing  *)
(* and whose save_snapshot call was reached and wrote the file, the stored *)
(* snapshot equals that run's all_listings, with nothing of an earlier     *)
(* run.                                                                    *)
(***************************************************************************)
C10_SavedRunOverwritesSnapshot ==
    (run.monitoring /\ run.kind = "done" /\ run.save = "ok") =>
        /\ HoldsRecords(snapshot_file)
        /\ load_snapshot(snapshot_file) = unique_listings

C10_Witness ==
    /\ run.monitoring /\ run.kind = "done" /\ run.save = "ok"
    /\ previous_snapshot # <<>>
    /\ delisted_listings # <<>>
    /\ Len(unique_listings) = 2
    /\ load_snapshot(snapshot_file) = unique_listings

(***************************************************************************)
(* Vocabulary of the properties of scrape_search.  The k-th listing is     *)
(* built from the k-th card, and fetched[k] tells how its detail fetch     *)
(* went.                                                                   *)
(***************************************************************************)
CardPhase(k) == _parse_listing_card_fields(page_cards[k])

FetchFailed(response) == response.kind \in {"http_error", "network_error"}

\* the detail phase ran on the k-th listing
Enriched(k) == fetched[k].kind = "ok" /\ fetched[k].body # <<>>

EnrichmentAbsent(l) ==
    /\ l.description = None
    /\ l.epcRating = None
    /\ l.epc = None
    /\ l.agentPhone = None
    /\ l.postalCode = None
    /\ l.features = <<>>
    /\ l.images = <<>>
    /\ l.coordinates = None

\* the element is missing or shows nothing but spaces
BlankElement(e) == e = None \/ \A j \in 1..Len(e[1]) : e[1][j] = " "

\* none of the elements looked at shows a text
Blank(elements) == \A k \in 1..Len(elements) : BlankElement(elements[k])

\* the elements show no number: no text at all, or a first text without a
\* decimal digit or with a digit int() rejects
NoNumber(elements) ==
    \/ Blank(elements)
    \/ \E k \in 1..Len(elements) :
          /\ ~BlankElement(elements[k])
          /\ \A j \in 1..(k - 1) : BlankElement(elements[j])
          /\ \/ \A j \in 1..Len(elements[k][1]) : ~IsIn(DecimalDigits, elements[k][1][j])
             \/ IsIn(elements[k][1], SuperscriptTwo)

(***************************************************************************)
(* C11. For any search page and any cap n, scrape_search returns at most n *)
(* listings, in card order; once n listings are accumulated it builds no   *)
(* further card and issues no further detail fetch; and a listing whose    *)
(* build has started is always completed and appended: whenever the call   *)
(* is between two cards or has ended, every card taken has its listing.    *)
(***************************************************************************)
C11_Original ==
    /\ result_cap # None =>
          /\ Len(result_listings) <= result_cap.int
          /\ card_index <= result_cap.int
          /\ Len(requests) <= 1 + result_cap.int
    /\ \A k \in 1..Len(result_listings) :
          /\ result_listings[k].title = CardPhase(k).title
          /\ result_listings[k].url = CardPhase(k).url
    /\ pc \in {"loop", "returned", "raised"} => Len(result_listings) = card_index

(***************************************************************************)
(* C12. The request delay is observed after every fetch, of the search     *)
(* page and of every detail page, whether it succeeds or fails: once a     *)
(* fetch is over, the delay has elapsed since its request, and any two     *)
(* consecutive requests are at least the delay apart.                      *)
(***************************************************************************)
C12_Original ==
    /\ requests # <<>> => now - requests[Len(requests)].at >= request_delay_tenths
    /\ \A k \in 1..(Len(requests) - 1) :
          requests[k + 1].at - requests[k].at >= request_delay_tenths

(***************************************************************************)
(* C13. When the detail fetch of a listing with a URL fails, scrape_search *)
(* raises nothing: the step appends the listing exactly as the card phase  *)
(* made it and goes back to the loop, where the following card is next;    *)
(* and every listing whose fetch failed keeps its card-phase values, with  *)
(* every enrichment field absent or empty.                                 *)
(***************************************************************************)
C13_FailedFetchKeepsCardPhase ==
    [][/\ (pc = "detail" /\ Len(fetched') = Len(fetched) + 1
                         /\ FetchFailed(fetched'[Len(fetched')])) =>
             /\ pc' = "loop"
             /\ card_index' = card_index
             /\ result_listings' = Append(result_listings, CardPhase(card_index))
       /\ \A k \in 1..Len(fetched') :
             FetchFailed(fetched'[k]) =>
                /\ k <= Len(result_listings')
                /\ result_listings'[k] = _parse_listing_card_fields(page_cards'[k])
                /\ result_listings'[k].url # None
                /\ EnrichmentAbsent(result_listings'[k])]_vars

\* a detail fetch failed, and the card after it was built and enriched
C13_Witness ==
    /\ Len(result_listings) = 2
    /\ FetchFailed(fetched[1])
    /\ result_listings[1] = CardPhase(1)
    /\ result_listings[1].address # None
    /\ Enriched(2)
    /\ result_listings[2].description # None
    /\ pc = "returned"

C15_Original ==
    \A k \in 1..Len(result_listings) :
        Enriched(k) =>
            result_listings[k].postalCode =
                _extract_postcode(IF result_listings[k].address = None THEN <<>>
                                  ELSE result_listings[k].address[1])

(***************************************************************************)
(* C16. If a monitored run scrapes listings that all have identity keys    *)
(* and its snapshot save succeeds, then a monitored run that follows it    *)
(* immediately and scrapes the same set of listings reports an empty       *)
(* new_listings and an empty delisted_listings.                            *)
(***************************************************************************)
C16_RepeatedRunHasNoDeltas ==
    [][(/\ run.kind = "done" /\ run.monitoring /\ run.save = "ok"
        /\ AllKeyed(scraped_listings)
        /\ run'.kind = "done" /\ run'.monitoring
        /\ Range(scraped_listings') = Range(scraped_listings))
       => (new_listings' = <<>> /\ delisted_listings' = <<>>)]_vars

\* the second of two such runs: it loaded what the first one saved, two
\* listings with keys, scraped the same two, and reports no delta
C16_Witness ==
    /\ run.kind = "done" /\ run.monitoring
    /\ Len(previous_snapshot) = 2
    /\ AllKeyed(scraped_listings)
    /\ Range(scraped_listings) = Range(previous_snapshot)
    /\ load_snapshot(snapshot_file) = previous_snapshot
    /\ new_listings = <<>>
    /\ delisted_listings = <<>>

(***************************************************************************)
(* C17. Every listing scrape_search returns has uprn None, so under the    *)
(* default priority order its identity key is "url:" and its detail URL,   *)
(* or None.  Hence a run drops a scraped listing as a duplicate only when  *)
(* an earlier one has its URL, matches a listing with a stored one only    *)
(* when their URLs are equal, keeps every listing of a card without an     *)
(* anchor, and reports no such listing as new or delisted.                 *)
(***************************************************************************)
C17_ScrapedListingsKeyedByUrl ==
    /\ \A i \in 1..Len(scraped_listings) :
          LET l == scraped_listings[i]
          IN  /\ l.uprn = None
              /\ _build_id_key(l, DefaultIdFields) =
                    IF l.url = None THEN None ELSE Str("url:" \o l.url[1])
    /\ run.kind = "done" =>
          /\ unique_listings =
                PickFrom(scraped_listings,
                         {i \in 1..Len(scraped_listings) :
                             \/ scraped_listings[i].url = None
                             \/ \A j \in 1..(i - 1) :
                                   scraped_listings[j].url # scraped_listings[i].url},
                         1)
          /\ run.monitoring =>
                /\ \A l \in Range(unique_listings) :
                      (l.url # None /\ l \notin Range(new_listings)) =>
                          \E p \in Range(previous_snapshot) : p.url = l.url
                /\ \A p \in Range(previous_snapshot) :
                      (p.url # None /\ p \notin Range(delisted_listings)) =>
                          \E l \in Range(unique_listings) : l.url = p.url
                /\ \A l \in Range(new_listings) \cup Range(delisted_listings) :
                      l.url # None

\* a card without an anchor was scraped by this run and by the run before,
\* beside a listing that is new and one that is delisted
C17_Witness ==
    /\ run.kind = "done" /\ run.monitoring
    /\ \E l \in Range(unique_listings) : l.url = None
    /\ \E p \in Range(previous_snapshot) : p.url = None
    /\ Len(new_listings) = 1
    /\ Len(delisted_listings) = 1

====
